---- MODULE Spec2Model ----
(***************************************************************************)
(* A model of package waitgroup (src/waitgroup.go): a sync.WaitGroup       *)
(* wrapped with a registry of the Add() call sites that have not yet had   *)
(* their Done(), and a Wait(duration) whose watcher goroutine logs that    *)
(* registry once the duration has elapsed.                                 *)
(*                                                                         *)
(* Every call of Add, Done, Wait and LogNotDone is made by a goroutine of  *)
(* its own, so that calls overlap in every way the Go scheduler allows; a  *)
(* goroutine that makes calls one after the other is the special case in   *)
(* which one call starts after the other has returned.                     *)
(*                                                                         *)
(* sync.WaitGroup, sync.RWMutex, sync.Mutex, time.After and select belong  *)
(* to the Go runtime; they are modelled from their documented behaviour    *)
(* and from the standard library's implementation:                         *)
(*  - WaitGroup.Add(delta) adds delta to the counter atomically and THEN   *)
(*    panics if the counter has become negative, so the counter keeps the  *)
(*    negative value when the panic is recovered; when the counter reaches *)
(*    0 it resets the waiter count and releases the semaphore once per     *)
(*    waiter. WaitGroup.Wait returns at once when the counter is 0, else   *)
(*    registers as a waiter and sleeps on the semaphore; once woken it     *)
(*    panics ("reused before previous Wait has returned") if the state is  *)
(*    no longer zero.                                                      *)
(*  - Mutex: Options.Log holds o.loggerMutex for the one write it makes,   *)
(*    so each Log is one step.                                             *)
(*  - RWMutex.Lock takes the writers' mutex, announces the pending writer  *)
(*    (which blocks new readers) and waits for the active readers to       *)
(*    leave; RLock blocks while a writer is pending or active.             *)
(*  - a deferred Unlock runs when the function panics.                     *)
(***************************************************************************)
EXTENDS Integers, Sequences, FiniteSets

\* ---------------------------------------------------------------- bounds
\* Largest i passed to Add(i).
MaxAdd == 1
\* Add is not called when the counter or the site's entry would exceed this.
MaxCount == 2
\* Done is not called when the counter is already this far below zero.
MaxUnderflow == 1

\* The call sites ("file:line" strings built by Add from runtime.Caller(1)),
\* which are also the strings passed to Done.
Keys == {"A", "B"}

\* The goroutines: those that call Add and Done over and over, those that
\* call Wait(duration) (once each), and those that call LogNotDone() directly
\* over and over. A logger is a goroutine that runs LogNotDone: a direct
\* caller, or the watcher goroutine of a Wait call, named after that call.
Workers == {"g1", "g2"}
Waits == {"wait1", "wait2"}
Dumpers == {"dump1"}
Loggers == Waits \cup Dumpers
NoProc == "none"

\* The client programs explored: the goroutines each of them runs. The
\* goroutines a program does not run stay "absent".
Programs ==
  { [workers |-> {"g1", "g2"}, waits |-> {"wait1"}, dumpers |-> {"dump1"}],
    [workers |-> {"g1"}, waits |-> {"wait1", "wait2"}, dumpers |-> {}] }

\* The text of the header line written by LogNotDone.
Header == "WaitGroup currently waiting on:"

VARIABLES
  wg,          \* *sync.WaitGroup: [v |-> counter, w |-> waiters, sema |-> semaphore]
  calls,       \* map[string]int: a function from the keys present to their counts
  mu,          \* sync.RWMutex: [w |-> pending or active writer, readers |-> set of loggers]
  out,         \* the lines each LogNotDone call in progress has written to Opts.Logger
  dumps,       \* number of dumps (header lines) the watcher of each Wait call has written
  wpc,         \* position of each Add/Done goroutine
  wargs,       \* arguments of the Add/Done call in progress: [i |-> , key |-> ]
  cpc,         \* position of each Wait caller (before, in or after w.wg.Wait())
  done,        \* the done channel of each Wait call: TRUE once closed
  limit,       \* the time.After channel of each watcher
  lpc,         \* position of each logger (watcher goroutine or LogNotDone caller)
  visited      \* keys each LogNotDone in progress has already ranged over

vars == <<wg, calls, mu, out, dumps, wpc, wargs, cpc, done, limit, lpc, visited>>

NoArgs == [i |-> 0, key |-> ""]

\* ------------------------------------------------------- sync.WaitGroup
\* A faulty wg.Add: a counter that would go negative is clamped to 0 without
\* a panic.
WgAddClamp(s, delta) ==
  LET v == IF s.v + delta < 0 THEN 0 ELSE s.v + delta IN
  IF s.w # 0 /\ delta > 0 /\ v = delta
    THEN [wg |-> [s EXCEPT !.v = v], panic |-> TRUE]
    ELSE IF v > 0 \/ s.w = 0
      THEN [wg |-> [s EXCEPT !.v = v], panic |-> FALSE]
      ELSE [wg |-> [v |-> 0, w |-> 0, sema |-> s.sema + s.w], panic |-> FALSE]

\* A faulty wg.Add: when the counter reaches 0 one waiter only is released.
WgAddReleaseOne(s, delta) ==
  LET v == s.v + delta IN
  IF v < 0 \/ (s.w # 0 /\ delta > 0 /\ v = delta)
    THEN [wg |-> [s EXCEPT !.v = v], panic |-> TRUE]
    ELSE IF v > 0 \/ s.w = 0
      THEN [wg |-> [s EXCEPT !.v = v], panic |-> FALSE]
      ELSE [wg |-> [v |-> 0, w |-> 0, sema |-> s.sema + 1], panic |-> FALSE]

\* Outcome of wg.Add(delta) on state s: the new state and whether it panics.
WgAdd(s, delta) ==
  LET v == s.v + delta IN
  IF v < 0 \/ (s.w # 0 /\ delta > 0 /\ v = delta)
    THEN [wg |-> [s EXCEPT !.v = v], panic |-> TRUE]
    ELSE IF v > 0 \/ s.w = 0
      THEN [wg |-> [s EXCEPT !.v = v], panic |-> FALSE]
      ELSE [wg |-> [v |-> 0, w |-> 0, sema |-> s.sema + s.w], panic |-> FALSE]

\* wg.Done() is wg.Add(-1).
WgDone(s) == WgAdd(s, -1)

\* ------------------------------------------------------------ the registry
Count(c, key) == IF key \in DOMAIN c THEN c[key] ELSE 0

\* A faulty registration: w.calls[key] = i, the entry is overwritten.
CallsAddOverwrite(c, key, i) ==
  [k \in DOMAIN c \cup {key} |-> IF k = key THEN i ELSE c[k]]

\* w.calls[key] += i
CallsAdd(c, key, i) ==
  [k \in DOMAIN c \cup {key} |-> IF k = key THEN Count(c, key) + i ELSE c[k]]

\* A faulty completion: the entry of the key is deleted whatever its count.
CallsDoneDeleteAlways(c, key) == [k \in DOMAIN c \ {key} |-> c[k]]

\* if _, exists := w.calls[key]; exists { w.calls[key]--; if <= 0 { delete } }
CallsDone(c, key) ==
  IF key \in DOMAIN c
    THEN IF c[key] - 1 <= 0
      THEN [k \in DOMAIN c \ {key} |-> c[k]]
      ELSE [c EXCEPT ![key] = c[key] - 1]
    ELSE c

\* ------------------------------------------------------------------- Init
\* New(), in program prog, with no call made yet and nothing logged.
InitOf(prog) ==
  /\ wg = [v |-> 0, w |-> 0, sema |-> 0]
  /\ calls = [k \in {} |-> 0]
  /\ mu = [w |-> NoProc, readers |-> {}]
  /\ out = [l \in Loggers |-> <<>>]
  /\ dumps = [k \in Waits |-> 0]
  /\ wpc = [p \in Workers |-> IF p \in prog.workers THEN "idle" ELSE "absent"]
  /\ wargs = [p \in Workers |-> NoArgs]
  /\ cpc = [k \in Waits |-> IF k \in prog.waits THEN "idle" ELSE "absent"]
  /\ done = [k \in Waits |-> FALSE]
  /\ limit = [k \in Waits |-> "unset"]
  /\ lpc = [l \in Loggers |-> IF l \in prog.dumpers \/ l \in prog.waits
                               THEN "idle" ELSE "absent"]
  /\ visited = [l \in Loggers |-> {}]

Init == \E prog \in Programs : InitOf(prog)

\* -------------------------------------------------------------------- Add
\* A goroutine calls Add(i) from call site key: the key is built and
\* w.mu.Lock() takes the writers' mutex and announces the writer; from now on
\* RLock blocks. (A call that finds the writers' mutex taken waits for it
\* without any effect; it is the same call made later.)
AddLock(p, i, key) ==
  /\ wpc[p] = "idle"
  /\ wg.v + i <= MaxCount
  /\ Count(calls, key) + i <= MaxCount
  /\ mu.w = NoProc
  /\ mu' = [mu EXCEPT !.w = p]
  /\ wpc' = [wpc EXCEPT ![p] = "addBody"]
  /\ wargs' = [wargs EXCEPT ![p] = [i |-> i, key |-> key]]
  /\ UNCHANGED <<wg, calls, out, dumps, cpc, done, limit, lpc, visited>>

\* The body of Add once the readers have left: w.wg.Add(i), which may panic;
\* w.calls[key] += i; return key. The deferred Unlock runs in both cases.
AddBody(p) ==
  /\ wpc[p] = "addBody"
  /\ mu.w = p
  /\ mu.readers = {}
  /\ LET r == WgAdd(wg, wargs[p].i) IN
       /\ wg' = r.wg
       /\ calls' = IF r.panic THEN calls ELSE CallsAdd(calls, wargs[p].key, wargs[p].i)
       /\ wpc' = [wpc EXCEPT ![p] = IF r.panic THEN "panicked" ELSE "idle"]
  /\ mu' = [mu EXCEPT !.w = NoProc]
  /\ wargs' = [wargs EXCEPT ![p] = NoArgs]
  /\ UNCHANGED <<out, dumps, cpc, done, limit, lpc, visited>>

\* ------------------------------------------------------------------- Done
\* A goroutine calls Done(key): w.mu.Lock() takes the writers' mutex and
\* announces the writer.
DoneLock(p, key) ==
  /\ wpc[p] = "idle"
  /\ wg.v > -MaxUnderflow
  /\ mu.w = NoProc
  /\ mu' = [mu EXCEPT !.w = p]
  /\ wpc' = [wpc EXCEPT ![p] = "doneBody"]
  /\ wargs' = [wargs EXCEPT ![p] = [i |-> 0, key |-> key]]
  /\ UNCHANGED <<wg, calls, out, dumps, cpc, done, limit, lpc, visited>>

\* A faulty Done: the registry is updated before w.wg.Done(), so also when
\* that call panics.
DoneBodyRegistryFirst(p) ==
  /\ wpc[p] = "doneBody"
  /\ mu.w = p
  /\ mu.readers = {}
  /\ LET r == WgDone(wg) IN
       /\ wg' = r.wg
       /\ calls' = CallsDone(calls, wargs[p].key)
       /\ wpc' = [wpc EXCEPT ![p] = IF r.panic THEN "panicked" ELSE "idle"]
  /\ mu' = [mu EXCEPT !.w = NoProc]
  /\ wargs' = [wargs EXCEPT ![p] = NoArgs]
  /\ UNCHANGED <<out, dumps, cpc, done, limit, lpc, visited>>

\* A faulty Done: the test of the key comes first and a key absent from the
\* registry returns before w.wg.Done().
DoneBodyStrict(p) ==
  /\ wpc[p] = "doneBody"
  /\ mu.w = p
  /\ mu.readers = {}
  /\ LET r == IF wargs[p].key \in DOMAIN calls
                THEN WgDone(wg) ELSE [wg |-> wg, panic |-> FALSE] IN
       /\ wg' = r.wg
       /\ calls' = IF r.panic THEN calls ELSE CallsDone(calls, wargs[p].key)
       /\ wpc' = [wpc EXCEPT ![p] = IF r.panic THEN "panicked" ELSE "idle"]
  /\ mu' = [mu EXCEPT !.w = NoProc]
  /\ wargs' = [wargs EXCEPT ![p] = NoArgs]
  /\ UNCHANGED <<out, dumps, cpc, done, limit, lpc, visited>>

\* The body of Done once the readers have left: w.wg.Done(), which may
\* panic; then the registry entry of key, if any, is decremented and deleted
\* when it is <= 0. The deferred Unlock runs in both cases.
DoneBody(p) ==
  /\ wpc[p] = "doneBody"
  /\ mu.w = p
  /\ mu.readers = {}
  /\ LET r == WgDone(wg) IN
       /\ wg' = r.wg
       /\ calls' = IF r.panic THEN calls ELSE CallsDone(calls, wargs[p].key)
       /\ wpc' = [wpc EXCEPT ![p] = IF r.panic THEN "panicked" ELSE "idle"]
  /\ mu' = [mu EXCEPT !.w = NoProc]
  /\ wargs' = [wargs EXCEPT ![p] = NoArgs]
  /\ UNCHANGED <<out, dumps, cpc, done, limit, lpc, visited>>

\* The caller of a panicked Add or Done recovers and goes on.
Recover(p) ==
  /\ wpc[p] = "panicked"
  /\ wpc' = [wpc EXCEPT ![p] = "idle"]
  /\ UNCHANGED <<wg, calls, mu, out, dumps, wargs, cpc, done, limit, lpc, visited>>

\* ------------------------------------------------------------------- Wait
\* Wait(wait) is called: done := make(chan struct{}), and the watcher
\* goroutine is started and arms its timer, limit := time.After(wait). The
\* caller has not yet reached w.wg.Wait(): from here on the watcher runs on
\* its own. (The time the watcher takes to arm the timer is part of the
\* arbitrary duration.)
WaitCall(k) ==
  /\ cpc[k] = "idle"
  /\ cpc' = [cpc EXCEPT ![k] = "enter"]
  /\ lpc' = [lpc EXCEPT ![k] = "select"]
  /\ limit' = [limit EXCEPT ![k] = "armed"]
  /\ UNCHANGED <<wg, calls, mu, out, dumps, wpc, wargs, done, visited>>

\* A faulty w.wg.Wait(), a one-shot latch: once a Wait has returned the gate
\* stays open and later calls return at once.
WgWaitEnterLatch(k) ==
  /\ cpc[k] = "enter"
  /\ IF wg.v = 0 \/ \E j \in Waits : cpc[j] = "returned"
       THEN /\ cpc' = [cpc EXCEPT ![k] = "close"]
            /\ wg' = wg
       ELSE /\ cpc' = [cpc EXCEPT ![k] = "blocked"]
            /\ wg' = [wg EXCEPT !.w = wg.w + 1]
  /\ UNCHANGED <<calls, mu, out, dumps, wpc, wargs, done, limit, lpc, visited>>

\* w.wg.Wait(), entry: the caller reads the state; it returns at once when
\* the counter is 0 and otherwise counts itself as a waiter and goes to sleep
\* on the semaphore.
WgWaitEnter(k) ==
  /\ cpc[k] = "enter"
  /\ IF wg.v = 0
       THEN /\ cpc' = [cpc EXCEPT ![k] = "close"]
            /\ wg' = wg
       ELSE /\ cpc' = [cpc EXCEPT ![k] = "blocked"]
            /\ wg' = [wg EXCEPT !.w = wg.w + 1]
  /\ UNCHANGED <<calls, mu, out, dumps, wpc, wargs, done, limit, lpc, visited>>

\* w.wg.Wait(), wake-up: the sleeper takes a semaphore release and returns,
\* or panics when the group has been reused in the meantime.
WgWaitWake(k) ==
  /\ cpc[k] = "blocked"
  /\ wg.sema > 0
  /\ wg' = [wg EXCEPT !.sema = wg.sema - 1]
  /\ cpc' = [cpc EXCEPT ![k] = IF wg.v # 0 \/ wg.w # 0 THEN "panicked" ELSE "close"]
  /\ UNCHANGED <<calls, mu, out, dumps, wpc, wargs, done, limit, lpc, visited>>

\* close(done), and Wait returns.
CloseDone(k) ==
  /\ cpc[k] = "close"
  /\ done' = [done EXCEPT ![k] = TRUE]
  /\ cpc' = [cpc EXCEPT ![k] = "returned"]
  /\ UNCHANGED <<wg, calls, mu, out, dumps, wpc, wargs, limit, lpc, visited>>

\* ------------------------------------------------- the watcher goroutine
\* The duration has elapsed: the runtime sends the one value of the channel.
\* Any duration is some moment at which this step is taken.
TimerFire(k) ==
  /\ limit[k] = "armed"
  /\ limit' = [limit EXCEPT ![k] = "fired"]
  /\ UNCHANGED <<wg, calls, mu, out, dumps, wpc, wargs, cpc, done, lpc, visited>>

\* A faulty watcher: case <-done: break, which leaves the select only and
\* not the loop.
SelectDoneBreak(k) ==
  /\ lpc[k] = "select"
  /\ done[k]
  /\ UNCHANGED vars

\* select, case <-done: return.
SelectDone(k) ==
  /\ lpc[k] = "select"
  /\ done[k]
  /\ lpc' = [lpc EXCEPT ![k] = "exited"]
  /\ UNCHANGED <<wg, calls, mu, out, dumps, wpc, wargs, cpc, done, limit, visited>>

\* A faulty watcher: on the timeout it also gives up the wait, releasing the
\* blocked caller of Wait.
SelectLimitReleases(k) ==
  /\ lpc[k] = "select"
  /\ limit[k] = "fired"
  /\ limit' = [limit EXCEPT ![k] = "consumed"]
  /\ lpc' = [lpc EXCEPT ![k] = "rlock"]
  /\ cpc' = [cpc EXCEPT ![k] = IF cpc[k] = "blocked" THEN "close" ELSE cpc[k]]
  /\ UNCHANGED <<wg, calls, mu, out, dumps, wpc, wargs, done, visited>>

\* A faulty watcher: a ticker instead of a timer, the channel delivers again
\* after each receive.
SelectLimitRearm(k) ==
  /\ lpc[k] = "select"
  /\ limit[k] = "fired"
  /\ limit' = [limit EXCEPT ![k] = "armed"]
  /\ lpc' = [lpc EXCEPT ![k] = "rlock"]
  /\ UNCHANGED <<wg, calls, mu, out, dumps, wpc, wargs, cpc, done, visited>>

\* select, case <-limit: the value is received and w.LogNotDone() is called.
\* When both cases are ready select takes either.
SelectLimit(k) ==
  /\ lpc[k] = "select"
  /\ limit[k] = "fired"
  /\ limit' = [limit EXCEPT ![k] = "consumed"]
  /\ lpc' = [lpc EXCEPT ![k] = "rlock"]
  /\ UNCHANGED <<wg, calls, mu, out, dumps, wpc, wargs, cpc, done, visited>>

\* ------------------------------------------------------------- LogNotDone
\* A goroutine calls LogNotDone() directly.
DumpCall(d) ==
  /\ d \in Dumpers
  /\ lpc[d] = "idle"
  /\ lpc' = [lpc EXCEPT ![d] = "rlock"]
  /\ UNCHANGED <<wg, calls, mu, out, dumps, wpc, wargs, cpc, done, limit, visited>>

\* A faulty test, len(w.calls) != 0: LogNotDone returns when there is
\* something to report.
AfterCheckInverted(c) == IF Cardinality(DOMAIN c) # 0 THEN "ret" ELSE "hdr"

\* A faulty LogNotDone without the test: the header is always written.
AfterCheckAlwaysHeader(c) == "hdr"

\* The position after w.mu.RLock() and the test len(w.calls) == 0: the
\* return, or the Opts.Log of the header.
AfterCheck(c) == IF Cardinality(DOMAIN c) = 0 THEN "ret" ELSE "hdr"

\* The position of logger l once its LogNotDone has returned: a watcher is
\* back at its select.
AfterReturn(l) == IF l \in Waits THEN "select" ELSE "idle"

\* A faulty LogNotDone without w.mu.RLock(): it waits for no writer and
\* holds no writer back.
LogRLockNoLock(l) ==
  /\ lpc[l] = "rlock"
  /\ lpc' = [lpc EXCEPT ![l] = IF AfterCheck(calls) = "ret"
                                 THEN AfterReturn(l) ELSE "hdr"]
  /\ UNCHANGED <<wg, calls, mu, out, dumps, wpc, wargs, cpc, done, limit, visited>>

\* w.mu.RLock(), which waits while a writer is pending or active, and the
\* test of len(w.calls): on an empty registry LogNotDone returns at once
\* (the deferred RUnlock), otherwise it goes on holding the read lock.
LogRLock(l) ==
  /\ lpc[l] = "rlock"
  /\ mu.w = NoProc
  /\ IF AfterCheck(calls) = "ret"
       THEN /\ lpc' = [lpc EXCEPT ![l] = AfterReturn(l)]
            /\ mu' = mu
       ELSE /\ lpc' = [lpc EXCEPT ![l] = "hdr"]
            /\ mu' = [mu EXCEPT !.readers = mu.readers \cup {l}]
  /\ UNCHANGED <<wg, calls, out, dumps, wpc, wargs, cpc, done, limit, visited>>

\* Opts.Log(pattern, args): under o.loggerMutex, which is held for this one
\* write only and by a goroutine that waits for nothing while it holds it,
\* the formatted line is written to o.Logger. A line is the header, or the
\* pair behind " key (n outstanding)".
Log(o, key, n) == Append(o, [key |-> key, n |-> n])

\* Opts.Log("\nWaitGroup currently waiting on:\n")
LogHeader(l) ==
  /\ lpc[l] = "hdr"
  /\ out' = [out EXCEPT ![l] = Log(out[l], Header, 0)]
  /\ dumps' = IF l \in Waits THEN [dumps EXCEPT ![l] = dumps[l] + 1] ELSE dumps
  /\ lpc' = [lpc EXCEPT ![l] = "range"]
  /\ UNCHANGED <<wg, calls, mu, wpc, wargs, cpc, done, limit, visited>>

\* The keys the range over w.calls has still to produce.
Remaining(l) == DOMAIN calls \ visited[l]

\* One iteration of for key, n := range w.calls (in any order):
\* Opts.Log(" %s (%d outstanding)\n", key, n).
LogLine(l, key) ==
  /\ lpc[l] = "range"
  /\ key \in Remaining(l)
  /\ out' = [out EXCEPT ![l] = Log(out[l], key, calls[key])]
  /\ visited' = [visited EXCEPT ![l] = visited[l] \cup {key}]
  /\ UNCHANGED <<wg, calls, mu, dumps, lpc, wpc, wargs, cpc, done, limit>>

\* A faulty LogNotDone: the range is left after at most one line.
LogReturnEarly(l) ==
  /\ lpc[l] = "range"
  /\ Cardinality(visited[l]) >= 1 \/ Remaining(l) = {}
  /\ mu' = [mu EXCEPT !.readers = mu.readers \ {l}]
  /\ visited' = [visited EXCEPT ![l] = {}]
  /\ out' = [out EXCEPT ![l] = <<>>]
  /\ lpc' = [lpc EXCEPT ![l] = AfterReturn(l)]
  /\ UNCHANGED <<wg, calls, dumps, wpc, wargs, cpc, done, limit>>

\* A faulty LogNotDone that returns without w.mu.RUnlock().
LogReturnNoUnlock(l) ==
  /\ lpc[l] = "range"
  /\ Remaining(l) = {}
  /\ visited' = [visited EXCEPT ![l] = {}]
  /\ out' = [out EXCEPT ![l] = <<>>]
  /\ lpc' = [lpc EXCEPT ![l] = AfterReturn(l)]
  /\ UNCHANGED <<wg, calls, mu, dumps, wpc, wargs, cpc, done, limit>>

\* The range is over and LogNotDone returns: the deferred w.mu.RUnlock().
LogReturn(l) ==
  /\ lpc[l] = "range"
  /\ Remaining(l) = {}
  /\ mu' = [mu EXCEPT !.readers = mu.readers \ {l}]
  /\ visited' = [visited EXCEPT ![l] = {}]
  /\ out' = [out EXCEPT ![l] = <<>>]
  /\ lpc' = [lpc EXCEPT ![l] = AfterReturn(l)]
  /\ UNCHANGED <<wg, calls, dumps, wpc, wargs, cpc, done, limit>>

\* ------------------------------------------------------------------- Next
Next ==
  \/ \E p \in Workers, i \in 0 .. MaxAdd, key \in Keys : AddLock(p, i, key)
  \/ \E p \in Workers, key \in Keys : DoneLock(p, key)
  \/ \E p \in Workers : AddBody(p)
  \/ \E p \in Workers : DoneBody(p)
  \/ \E p \in Workers : Recover(p)
  \/ \E k \in Waits : WaitCall(k)
  \/ \E k \in Waits : WgWaitEnter(k)
  \/ \E k \in Waits : WgWaitWake(k)
  \/ \E k \in Waits : CloseDone(k)
  \/ \E k \in Waits : TimerFire(k)
  \/ \E k \in Waits : SelectDone(k)
  \/ \E k \in Waits : SelectLimit(k)
  \/ \E d \in Dumpers : DumpCall(d)
  \/ \E l \in Loggers : LogRLock(l)
  \/ \E l \in Loggers : LogHeader(l)
  \/ \E l \in Loggers, key \in Keys : LogLine(l, key)
  \/ \E l \in Loggers : LogReturn(l)

Spec == Init /\ [][Next]_vars

\* The steps a call of Add or Done, of Wait, and of LogNotDone takes once it
\* has been made.
WriterStep == \E p \in Workers : AddBody(p) \/ DoneBody(p)
WaiterStep == \E k \in Waits : WgWaitEnter(k) \/ WgWaitWake(k) \/ CloseDone(k)
LogStep(l) ==
  \/ LogRLock(l) \/ LogHeader(l) \/ LogReturn(l)
  \/ \E key \in Keys : LogLine(l, key)
WatcherStep ==
  \E k \in Waits : TimerFire(k) \/ SelectDone(k) \/ SelectLimit(k) \/ LogStep(k)
DumperStep == \E d \in Dumpers : LogStep(d)

\* Fair scheduling: a goroutine that can take a step of a call in progress
\* eventually takes it, the runtime eventually delivers an armed timer, and
\* sync.RWMutex is starvation-free, so a goroutine waiting for a lock that is
\* free again and again eventually gets it (strong fairness). Nothing
\* obliges the program to make a call, nor a caller to recover from a panic. At most one writer is past Lock() at a time, and a
\* Wait call and its watcher take finitely many steps, so fairness of each
\* group of steps is fairness of each goroutine in it.
Fairness ==
  /\ WF_vars(WriterStep)
  /\ WF_vars(WaiterStep)
  /\ SF_vars(WatcherStep)
  /\ SF_vars(DumperStep)

\* The client program explored under fair scheduling.
FairPrograms ==
  { [workers |-> {"g1"}, waits |-> {"wait1"}, dumpers |-> {"dump1"}] }

FairInit == \E prog \in FairPrograms : InitOf(prog)

FairSpec == FairInit /\ [][Next]_vars /\ Fairness

\* The client programs explored under fair scheduling for the claims about
\* several Wait calls: the one above, and one with two Wait calls.
WaitersPrograms ==
  FairPrograms \cup
    { [workers |-> {"g1"}, waits |-> {"wait1", "wait2"}, dumpers |-> {}] }

WaitersInit == \E prog \in WaitersPrograms : InitOf(prog)

WaitersSpec == WaitersInit /\ [][Next]_vars /\ Fairness

\* ================================================================ claims

\* C1: a Wait call is released only at a moment when the counter is 0 (the
\* step at which w.wg.Wait() returns is taken with the counter at 0 and leaves
\* it at 0, and a sleeper leaves its sleep only on a semaphore release), and
\* no step of the timer or of the watcher changes the position of the Wait
\* caller: the elapsed timer never releases, cancels or fails the wait.
C1_ReleasedOnlyAtZero ==
  [][\A k \in Waits :
       /\ (/\ cpc[k] \in {"idle", "enter", "blocked"}
           /\ cpc'[k] \in {"close", "returned"})
            => (wg.v = 0 /\ wg'.v = 0)
       /\ (cpc[k] = "blocked" /\ cpc'[k] # "blocked") => wg.sema > 0
       /\ (cpc[k] # "idle" /\ (limit'[k] # limit[k] \/ lpc'[k] # lpc[k]
                                \/ dumps'[k] # dumps[k]))
            => cpc'[k] = cpc[k]]_vars

\* A Wait whose timer has elapsed and whose watcher has dumped, released with
\* the counter at 0.
C1_Witness ==
  \E k \in Waits : cpc[k] = "close" /\ dumps[k] = 1 /\ limit[k] = "consumed"
                   /\ wg.v = 0 /\ lpc[k] = "select"

\* A Wait call in progress: called, and neither returned nor panicked.
InProgress(k) == cpc[k] \in {"enter", "blocked", "close"}

\* C2 (as stated): under fair scheduling, if the counter eventually reaches 0
\* and stays 0, every Wait call in progress eventually returns.
C2_EventuallyReturns ==
  \A k \in Waits :
    (<>[](wg.v = 0)) => [](InProgress(k) => <>(cpc[k] = "returned"))

\* C3 (as stated): the counter is >= 0 in every reachable state.
C3_NeverNegative == wg.v >= 0

\* C3 (amended): a call of Add or Done ends in the panic exactly when it
\* leaves the counter below 0, so a call that returns normally leaves it
\* >= 0; a Done executed with the counter at 0 or below always panics; and no
\* Done clamps: it lowers the counter by exactly 1, also when it panics.
C3_UnderflowPanics ==
  [][\A p \in Workers :
       (wpc[p] \in {"addBody", "doneBody"} /\ wpc'[p] # wpc[p])
         => /\ (wpc'[p] = "panicked") <=> (wg'.v < 0)
            /\ wpc'[p] \in {"panicked", "idle"}
            /\ (wpc[p] = "doneBody") => (wg'.v = wg.v - 1)
            /\ (wpc[p] = "doneBody" /\ wg.v <= 0) => wpc'[p] = "panicked"]_vars

\* A Done executed with the counter at 0 has panicked.
C3_Witness ==
  \E p \in Workers : wpc[p] = "panicked" /\ wg.v = -1 /\ DOMAIN calls = {}

\* The unit registered under key is outstanding: its entry and the counter
\* are positive.
Outstanding(key) == key \in DOMAIN calls /\ calls[key] > 0 /\ wg.v > 0

\* The dump logger l is writing names key.
Named(l, key) == \E i \in 1 .. Len(out[l]) : out[l][i].key = key

\* C4: under fair scheduling, if a unit registered under an identity stays
\* outstanding for ever from a moment at which a Wait call is in w.wg.Wait()
\* or about to enter it and its timer has not been handled yet, then that
\* Wait eventually emits a dump that names the identity, and the Wait call
\* never returns.
C4_DumpNamesStuckSite ==
  \A k \in Waits, key \in Keys :
    []((cpc[k] \in {"enter", "blocked"} /\ limit[k] \in {"armed", "fired"}
          /\ []Outstanding(key))
         => (<>Named(k, key) /\ [](cpc[k] \notin {"close", "returned"})))

\* A blocked Wait whose watcher has written the line of an outstanding site.
C4_Witness ==
  \E k \in Waits, key \in Keys :
    cpc[k] = "blocked" /\ Outstanding(key) /\ Named(k, key) /\ dumps[k] = 1

\* The lines after the header that logger l has written.
Lines(l) == {out[l][i] : i \in 2 .. Len(out[l])}

\* C5 (as stated): when the timer of a blocked Wait has elapsed while
\* registrations outnumber completions (the counter is > 0), the dump its
\* watcher has produced when LogNotDone is about to return lists exactly the
\* identities whose count is positive, each with its count, and no identity
\* whose count is zero.
C5_DumpExactlyPositive ==
  \A k \in Waits :
    (cpc[k] = "blocked" /\ lpc[k] = "range" /\ Remaining(k) = {} /\ wg.v > 0)
      => /\ Lines(k) = {[key |-> key, n |-> calls[key]] :
                          key \in {x \in DOMAIN calls : calls[x] > 0}}
         /\ \A line \in Lines(k) : line.n > 0

\* C6: one Wait call triggers at most one dump.
C6_AtMostOneDump == \A k \in Waits : dumps[k] <= 1

\* A Wait that dumped once and has returned, its watcher gone.
C6_Witness ==
  \E k \in Waits : dumps[k] = 1 /\ cpc[k] = "returned" /\ lpc[k] = "exited"

\* No Add or Done call is in progress.
Quiet == \A p \in Workers : wpc[p] \in {"idle", "absent"}

\* C7 (as stated): a blocked Wait that is released when every registration
\* has been matched by its completions (the counter is 0, the registry is
\* empty, no call is in progress) has produced no diagnostic output.
C7_MatchedNoOutput ==
  [][\A k \in Waits :
       (/\ cpc[k] = "blocked" /\ cpc'[k] = "close"
        /\ wg.v = 0 /\ DOMAIN calls = {} /\ Quiet)
         => dumps[k] = 0]_vars

\* The sum of the counts of the registry c (no count is negative): the
\* number of units it holds, each a key with its rank.
SumCalls(c) ==
  Cardinality(UNION {{<<key, j>> : j \in 1 .. c[key]} : key \in DOMAIN c})

\* Every Done so far has presented a key with a unit registered and not yet
\* completed, so each registration is matched, so far, by completions of its
\* own key only: the counter equals the sum of the registry (a Done with no
\* unit for its key lowers the counter alone, and the two never meet again).
Matched == wg.v = SumCalls(calls)

\* C7 (amended): in a run whose registrations are matched by their
\* completions, the watcher of a Wait writes only after it has received the
\* elapsed timer and holds the read lock, and only while the counter is
\* positive (a registered unit is not yet completed) or the registry holds a
\* zero-count entry stored by an Add(0); a watcher that takes the lock when
\* every registered unit has been completed and no zero-count entry is
\* stored returns without writing anything; and a Wait whose timer has not
\* been received has written nothing, whatever the timeout.
C7_MatchedOutputOnlyWhileOutstanding ==
  [][\A k \in Waits :
       Matched =>
         /\ (Len(out'[k]) > Len(out[k]) \/ dumps'[k] # dumps[k])
              => /\ limit[k] = "consumed"
                 /\ k \in mu.readers
                 /\ wg.v > 0 \/ \E key \in DOMAIN calls : calls[key] = 0
         /\ (/\ lpc[k] = "rlock" /\ lpc'[k] # "rlock"
             /\ wg.v = 0
             /\ \A key \in DOMAIN calls : calls[key] # 0)
              => (lpc'[k] = "select" /\ out'[k] = <<>> /\ dumps'[k] = dumps[k])
         /\ (limit[k] # "consumed") => (out[k] = <<>> /\ dumps[k] = 0)]_vars

\* A Wait went to sleep on a registered unit; the unit has been completed
\* (the release of the sleeper is pending, the registry is empty again), and
\* only now has the watcher received the elapsed timer: it is about to take
\* the read lock, and nothing has been written.
C7_Witness ==
  \E k \in Waits :
    /\ cpc[k] = "blocked" /\ wg.sema = 1 /\ wg.w = 0
    /\ wg.v = 0 /\ DOMAIN calls = {} /\ Matched /\ Quiet
    /\ limit[k] = "consumed" /\ lpc[k] = "rlock" /\ dumps[k] = 0

\* C8: an Add(i) that returns adds i to the entry of its identity (creating
\* it when absent) and touches no other entry, so two Adds with the same
\* identity leave n1 + n2; a Done of an identity whose entry is n >= 1 lowers
\* that entry by exactly 1 (removing it when it reaches 0) and touches no
\* other entry.
C8_AggregateAndDecrement ==
  [][\A p \in Workers :
       LET key == wargs[p].key IN
       /\ (wpc[p] = "addBody" /\ wpc'[p] = "idle")
            => /\ key \in DOMAIN calls'
               /\ calls'[key] = Count(calls, key) + wargs[p].i
               /\ \A other \in Keys \ {key} :
                    /\ (other \in DOMAIN calls') <=> (other \in DOMAIN calls)
                    /\ Count(calls', other) = Count(calls, other)
       /\ (wpc[p] = "doneBody" /\ wpc'[p] = "idle" /\ Count(calls, key) >= 1)
            => /\ Count(calls', key) = calls[key] - 1
               /\ (key \in DOMAIN calls') <=> (calls[key] >= 2)
               /\ \A other \in Keys \ {key} :
                    /\ (other \in DOMAIN calls') <=> (other \in DOMAIN calls)
                    /\ Count(calls', other) = Count(calls, other)]_vars

\* Two Add(1) from the same call site have been aggregated into one entry of
\* 2 (no single Add adds more than MaxAdd).
C8_Witness ==
  \E key \in DOMAIN calls : calls[key] > MaxAdd /\ DOMAIN calls = {key} /\ wg.v = calls[key]

\* C9: a Done presenting an identity absent from the registry, executed while
\* the counter is > 0, lowers the counter by exactly 1, returns normally and
\* leaves the registry unchanged.
C9_AbsentIdentity ==
  [][\A p \in Workers :
       (/\ wpc[p] = "doneBody" /\ wpc'[p] # "doneBody"
        /\ wargs[p].key \notin DOMAIN calls
        /\ wg.v > 0)
         => (wg'.v = wg.v - 1 /\ calls' = calls /\ wpc'[p] = "idle")]_vars

\* A Done of an identity absent from a non-empty registry is about to run.
C9_Witness ==
  \E p \in Workers :
    /\ wpc[p] = "doneBody" /\ mu.readers = {}
    /\ wargs[p].key \notin DOMAIN calls
    /\ DOMAIN calls # {}
    /\ wg.v > 0

\* C10 (as stated): every identity present in the registry has a count > 0.
C10_EntriesPositive == \A key \in DOMAIN calls : calls[key] > 0

\* C11 (as stated): Add(0) has no observable effect: the counter and the
\* registry (its keys and their counts) are the same after the call as
\* before it.
C11_AddZeroNoEffect ==
  [][\A p \in Workers :
       (wpc[p] = "addBody" /\ wpc'[p] = "idle" /\ wargs[p].i = 0)
         => (wg' = wg /\ calls' = calls)]_vars

\* C12: a LogNotDone that finds the registry empty returns without writing
\* anything, not even the header; nothing is ever written while the registry
\* is empty; and a LogNotDone that finds it non-empty has written, when it
\* returns, the header followed by exactly one line per key present.
C12_EmptyDumpSilent ==
  [][\A l \in Loggers :
       /\ (lpc[l] = "rlock" /\ lpc'[l] # "rlock" /\ DOMAIN calls = {})
            => (lpc'[l] = AfterReturn(l) /\ out'[l] = <<>> /\ out[l] = <<>>)
       /\ (lpc[l] = "rlock" /\ lpc'[l] # "rlock" /\ DOMAIN calls # {})
            => lpc'[l] = "hdr"
       /\ (out'[l] # out[l] /\ out'[l] # <<>>) => DOMAIN calls # {}
       /\ (lpc[l] = "range" /\ lpc'[l] # "range")
            => /\ Len(out[l]) = 1 + Cardinality(DOMAIN calls)
               /\ out[l][1].key = Header
               /\ {out[l][i].key : i \in 2 .. Len(out[l])} = DOMAIN calls]_vars

\* A watcher has come back from a LogNotDone that found the registry empty,
\* having written nothing, and a direct LogNotDone has written the header and
\* the lines of two keys.
C12_Witness ==
  \E k \in Waits, d \in Dumpers :
    /\ limit[k] = "consumed" /\ lpc[k] = "select" /\ dumps[k] = 0
    /\ lpc[d] = "range" /\ Remaining(d) = {} /\ Len(out[d]) = 3
    /\ out[d][1].key = Header

\* C13: several Wait calls block at the same time on one group, and under
\* fair scheduling, if the counter eventually reaches 0 and stays 0, none of
\* them remains blocked.
C13_AllWaitersReleased ==
  (<>[](wg.v = 0)) => \A k \in Waits : <>[](cpc[k] # "blocked")

\* Two Wait calls were asleep when the counter reached 0: one has taken its
\* release, the release of the other is pending.
C13_Witness ==
  \E k \in Waits, j \in Waits :
    /\ k # j
    /\ cpc[k] = "close" /\ cpc[j] = "blocked"
    /\ wg.sema = 1 /\ wg.v = 0 /\ wg.w = 0

\* C14: the group is a reusable barrier. An Add(i >= 1) executed with the
\* counter at 0 or above returns with the counter raised to a positive value,
\* also after an earlier round of waiters; a Wait started while the counter is
\* positive blocks, whatever Wait calls have returned before; and the
\* semaphore on which it sleeps is released only by a step that brings the
\* counter to 0.
C14_ReusableBarrier ==
  [][/\ \A p \in Workers :
          (wpc[p] = "addBody" /\ wpc'[p] # "addBody" /\ wargs[p].i >= 1 /\ wg.v >= 0)
            => (wpc'[p] = "idle" /\ wg'.v = wg.v + wargs[p].i /\ wg'.v > 0)
     /\ \A k \in Waits :
          /\ (cpc[k] = "enter" /\ cpc'[k] # "enter" /\ wg.v > 0)
               => (cpc'[k] = "blocked" /\ wg'.w = wg.w + 1)
          /\ (cpc[k] = "blocked" /\ cpc'[k] # "blocked")
               => (wg.sema > 0 /\ wg'.sema = wg.sema - 1)
     /\ (wg'.sema > wg.sema) => (wg'.v = 0 /\ wg.v # 0 /\ wg.w > 0)]_vars

\* A second round: one Wait has returned, the counter is positive again and
\* another Wait, started since, is asleep with no release pending.
C14_Witness ==
  \E k \in Waits, j \in Waits :
    /\ cpc[j] = "returned" /\ cpc[k] = "blocked"
    /\ wg.v > 0 /\ wg.sema = 0 /\ wg.w = 1

\* C15 (as stated): once the block of a Wait has completed while its timer
\* has not yet elapsed, that Wait never causes a write to the log: its
\* watcher writes no header and no line, before or after the Wait returns.
C15_NoOutputAfterEarlyCompletion ==
  \A k \in Waits :
    []((cpc[k] \in {"close", "returned"} /\ limit[k] = "armed")
         => [](dumps[k] = 0 /\ out[k] = <<>>))

\* C16: a dump is a snapshot under the read lock. From the test of
\* len(w.calls) to the return of LogNotDone the logger holds the read lock
\* and no step changes the registry or the counter, and every line written
\* carries the count its key has in the registry; so the lines of one dump
\* are the content of the registry at one moment.
C16_LockConsistentSnapshot ==
  [][\A l \in Loggers :
       (lpc[l] \in {"hdr", "range"})
         => /\ l \in mu.readers
            /\ mu.w = NoProc \/ \E p \in Workers : mu.w = p /\ wpc[p] \in {"addBody", "doneBody"}
            /\ calls' = calls
            /\ wg'.v = wg.v
            /\ {out[l][i].key : i \in 2 .. Len(out[l])} = visited[l]
            /\ \A i \in 2 .. Len(out[l]) :
                 /\ out[l][i].key \in DOMAIN calls
                 /\ out[l][i].n = calls[out[l][i].key]
            /\ (lpc'[l] \notin {"hdr", "range"}) => visited[l] = DOMAIN calls]_vars

\* A logger has written the lines of two keys while a writer that has called
\* Lock is held back by the read lock.
C16_Witness ==
  \E l \in Loggers, p \in Workers :
    /\ lpc[l] = "range" /\ Cardinality(visited[l]) = 2 /\ Len(out[l]) = 3
    /\ mu.w = p /\ wpc[p] \in {"addBody", "doneBody"}

\* C17: dumps never block Add or Done for ever. Whoever holds the registry
\* lock is at a step it can take without waiting for anything (a reader is
\* writing its dump, the writer is waiting only for the readers to leave), so
\* the two locks never deadlock; and under fair scheduling every call of Add
\* or Done that has called Lock eventually finishes, by returning or by the
\* panic of the counter.
C17_WritersFinish ==
  /\ [](/\ \A l \in mu.readers : lpc[l] \in {"hdr", "range"}
        /\ \A p \in Workers : (mu.w = p) <=> (wpc[p] \in {"addBody", "doneBody"}))
  /\ \A p \in Workers :
       [](wpc[p] \in {"addBody", "doneBody"} => <>(wpc[p] \in {"idle", "panicked"}))

\* A writer has called Lock while the watcher and the direct caller of
\* LogNotDone both hold the read lock.
C17_Witness ==
  \E p \in Workers :
    /\ wpc[p] \in {"addBody", "doneBody"} /\ mu.w = p
    /\ Cardinality(mu.readers) = 2

\* C18: the counter never exceeds the sum of the registry counts; the two
\* are equal until a Done presents a key with no unit in the registry (absent,
\* or an entry of 0): only such a Done, and once they differ the panic of a
\* Done (the difference grows by 1) or of an Add on a counter that stays
\* negative (it shrinks by i), changes their difference; hence while the
\* counter is positive the registry holds a key with a positive count, and
\* the dump of a watcher taken then names at least one key.
C18_CounterBelowRegistrySum ==
  [][LET before == SumCalls(calls) - wg.v
         after == SumCalls(calls') - wg'.v
     IN
     /\ wg.v <= 0 \/ before >= 0
     /\ ((calls' # calls \/ wg'.v # wg.v) /\ after # before)
          => \E p \in Workers :
               \/ /\ wpc[p] = "doneBody" /\ wpc'[p] # "doneBody"
                  /\ after = before + 1
                  /\ \/ Count(calls, wargs[p].key) = 0
                     \/ wpc'[p] = "panicked" /\ before > 0
               \/ /\ wpc[p] = "addBody" /\ wpc'[p] = "panicked"
                  /\ wg'.v < 0 /\ before > 0
                  /\ after = before - wargs[p].i
     /\ (wg.v > 0) => \E key \in DOMAIN calls : calls[key] > 0
     /\ \A k \in Waits :
          (wg.v > 0 /\ lpc[k] = "range" /\ lpc'[k] # "range")
            => \E i \in 2 .. Len(out[k]) : out[k][i].n > 0]_vars

\* A Wait is blocked on a positive counter that a Done of an absent key has
\* brought below the sum of the registry, and its watcher has dumped.
C18_Witness ==
  \E k \in Waits :
    /\ cpc[k] = "blocked" /\ dumps[k] = 1
    /\ mu.w = NoProc
    /\ wg.v > 0 /\ wg.v < SumCalls(calls)

\* C19: a Done that panics on the underflow of the counter leaves the
\* registry unchanged, also when the key it presents is still in the
\* registry, and releases the registry lock.
C19_UnderflowLeavesRegistry ==
  [][\A p \in Workers :
       (wpc[p] = "doneBody" /\ wpc'[p] # "doneBody" /\ wg.v <= 0)
         => /\ wpc'[p] = "panicked"
            /\ calls' = calls
            /\ mu'.w = NoProc
            /\ mu'.readers = mu.readers]_vars

\* A Done of a key that is still in the registry is about to run with the
\* counter at 0.
C19_Witness ==
  \E p \in Workers :
    /\ wpc[p] = "doneBody" /\ mu.readers = {}
    /\ wg.v = 0
    /\ wargs[p].key \in DOMAIN calls
    /\ calls[wargs[p].key] >= 1

\* C20: under fair scheduling the watcher goroutine of a Wait whose done
\* channel has been closed eventually returns, whether its timer has fired or
\* not and whether it dumps once more or not.
C20_WatcherTerminates ==
  \A k \in Waits : [](done[k] => <>(lpc[k] = "exited"))

\* A watcher has returned after the close of done, its timer fired and never
\* received.
C20_Witness ==
  \E k \in Waits :
    done[k] /\ lpc[k] = "exited" /\ limit[k] = "fired" /\ cpc[k] = "returned"

====
